---- MODULE Spec2Model ----
(***************************************************************************)
(* Model of proxy.SSHProxy (proxy/proxy.go): the ssh transport and its     *)
(* watcher goroutine, the per-forward accept loop, the per-client          *)
(* handleClient goroutine with its two io.Copy directions and its teardown *)
(* goroutine, the shared sync.WaitGroup p.wg and the stop channel p.done.  *)
(* Goroutines are interleaved at their blocking points.  The callers of    *)
(* the API, the local clients and the remote peers are the environment.    *)
(***************************************************************************)
EXTENDS Integers, Sequences, FiniteSets, TLC

\* bounds of the model
MaxConnects == 1
MaxForwards == 2
MaxClients == 2
NumCallers == 2

VARIABLES
    done,        \* p.done is closed (the stop signal has fired)
    panic,       \* "none", or the message of the unrecovered panic that killed the process
    conn,        \* p.conn: 0 is nil, otherwise the index of a transport
    transports,  \* one record per successful ssh.Dial, with its watcher goroutine
    wgCount,     \* counter of p.wg
    sd,          \* position of each caller of Shutdown
    listeners,   \* one record per successful net.Listen, with its accept loop
    clients,     \* one record per local client connection
    ret,         \* error returned by the last Connect or Forward call, "nil" if none
    cmd          \* the command around the proxy: position of RunE, its context, its signal handler

vars == <<done, panic, conn, transports, wgCount, sd, listeners, clients, ret, cmd>>

Callers == 1..NumCallers
Dirs == {"r2l", "l2r"}
KeyStates == {"unreadable", "malformed", "valid"}

\* the process is alive: no goroutine has panicked and the command has not exited
Running == panic = "none" /\ cmd.pc # "exited"

\* sync.WaitGroup.Add(1) and Done() on p.wg change wgCount; the counter is never
\* negative in a run of the code (Done would panic), the model lets it go below zero

\* sync.WaitGroup.Done on p.wg: the new counter
WgAfterDone == wgCount - 1

\* sync.WaitGroup.Done on p.wg: reaching zero wakes every goroutine blocked in Wait
SdAfterDone ==
    IF wgCount - 1 = 0
    THEN [c \in Callers |-> IF sd[c] = "waiting" THEN "woken" ELSE sd[c]]
    ELSE sd

\* an unrecovered panic in any goroutine ends the process: every goroutine, listener
\* and connection of the process is gone, only the panic message is left
Crash(msg) ==
    /\ panic' = msg
    /\ done' = FALSE
    /\ conn' = 0
    /\ transports' = <<>>
    /\ wgCount' = 0
    /\ sd' = [c \in Callers |-> "dead"]
    /\ listeners' = <<>>
    /\ clients' = <<>>
    /\ ret' = "nil"
    /\ cmd' = cmd

Init ==
    /\ done = FALSE
    /\ panic = "none"
    /\ conn = 0
    /\ transports = <<>>
    /\ wgCount = 0
    /\ sd = [c \in Callers |-> "idle"]
    /\ listeners = <<>>
    /\ clients = <<>>
    /\ ret = "nil"
    /\ cmd = [pc |-> "lib", ctx |-> "live", handler |-> "off", remotes |-> 0]

----
\* Shutdown, first statement: close(p.done); closing a closed channel panics
ShutdownClose(c) ==
    /\ Running
    /\ sd[c] = "idle"
    /\ \A b \in Callers : b < c => sd[b] # "idle"
    /\ IF done
       THEN Crash("close of closed channel")
       ELSE /\ done' = TRUE
            /\ sd' = [sd EXCEPT ![c] = "closed"]
            /\ UNCHANGED <<panic, conn, transports, wgCount, listeners, clients, ret, cmd>>

\* Shutdown, second statement: p.wg.Wait() returns at once on a zero counter, else blocks
ShutdownWait(c) ==
    /\ Running
    /\ sd[c] = "closed"
    /\ sd' = [sd EXCEPT ![c] = IF wgCount = 0 THEN "returned" ELSE "waiting"]
    /\ UNCHANGED <<done, panic, conn, transports, wgCount, listeners, clients, ret, cmd>>

\* p.wg.Wait() after its wake-up: the WaitGroup must still be at zero, else it panics
WaitReturn(c) ==
    /\ Running
    /\ sd[c] = "woken"
    /\ IF wgCount # 0
       THEN Crash("sync: WaitGroup is reused before previous Wait has returned")
       ELSE /\ sd' = [sd EXCEPT ![c] = "returned"]
            /\ UNCHANGED <<done, panic, conn, transports, wgCount, listeners, clients, ret, cmd>>

----
\* the caller makes its Connect and Forward calls before any call of Shutdown, as
\* the control flow of the program has it (Connect, Forward per mapping, then idle)
SetupPhase == \A c \in Callers : sd[c] = "idle"

\* parsePrivateKey: ReadFile fails on an unreadable path, ParsePrivateKey on a malformed key
parsePrivateKey(key) ==
    CASE key = "unreadable" -> "KeyReadError"
      [] key = "malformed" -> "KeyParseError"
      [] OTHER -> "ok"

\* makeConfig: fails exactly when parsePrivateKey fails
makeConfig(key) == parsePrivateKey(key)

\* ConnectFail with a slip: p.wg.Add(1) is made before ssh.Dial and not undone on
\* the error return
ConnectFailAfterAdd ==
    /\ Running
    /\ SetupPhase
    /\ Len(transports) < MaxConnects
    /\ \E key \in KeyStates, dialOK \in BOOLEAN :
          /\ makeConfig(key) # "ok" \/ ~dialOK
          /\ ret' = IF makeConfig(key) # "ok" THEN makeConfig(key) ELSE "DialError"
          /\ wgCount' = IF makeConfig(key) # "ok" THEN wgCount ELSE wgCount + 1
    /\ UNCHANGED <<done, panic, conn, transports, sd, listeners, clients>>

\* Connect that returns an error: makeConfig or ssh.Dial failed
ConnectFail ==
    /\ Running
    /\ SetupPhase
    /\ Len(transports) < MaxConnects
    /\ \E key \in KeyStates, dialOK \in BOOLEAN :
          /\ makeConfig(key) # "ok" \/ ~dialOK
          /\ ret' = IF makeConfig(key) # "ok" THEN makeConfig(key) ELSE "DialError"
    /\ UNCHANGED <<done, panic, conn, transports, wgCount, sd, listeners, clients>>

\* Connect that succeeds: p.wg.Add(1), the watcher goroutine is started, p.conn = conn
ConnectOK ==
    /\ Running
    /\ SetupPhase
    /\ Len(transports) < MaxConnects
    /\ makeConfig("valid") = "ok"
    /\ wgCount' = wgCount + 1
    /\ transports' = Append(transports, [closes |-> 0, watcher |-> "waiting", released |-> 0])
    /\ conn' = Len(transports) + 1
    /\ ret' = "nil"
    /\ UNCHANGED <<done, panic, sd, listeners, clients>>

\* Watcher with a slip: on the stop signal it also closes the local connection of
\* every pipe (a hard shutdown)
WatcherClosingLocals(t) ==
    /\ Running
    /\ t \in 1..Len(transports)
    /\ transports[t].watcher = "waiting"
    /\ done
    /\ transports' = [transports EXCEPT ![t] =
                         [@ EXCEPT !.closes = @ + 1, !.watcher = "exited", !.released = @ + 1]]
    /\ clients' = [k \in 1..Len(clients) |->
                     IF clients[k].tr = t /\ clients[k].remote = "open"
                     THEN [clients[k] EXCEPT !.remote = "down", !.local = "closed",
                                             !.localCloses = @ + 1]
                     ELSE clients[k]]
    /\ wgCount' = WgAfterDone
    /\ sd' = SdAfterDone
    /\ UNCHANGED <<done, panic, conn, listeners, ret, cmd>>

\* Watcher with a slip: the goroutine does not wait for p.done
WatcherNoWait(t) ==
    /\ Running
    /\ t \in 1..Len(transports)
    /\ transports[t].watcher = "waiting"
    /\ transports' = [transports EXCEPT ![t] =
                         [@ EXCEPT !.closes = @ + 1, !.watcher = "exited", !.released = @ + 1]]
    /\ clients' = [k \in 1..Len(clients) |->
                     IF clients[k].tr = t /\ clients[k].remote = "open"
                     THEN [clients[k] EXCEPT !.remote = "down"]
                     ELSE clients[k]]
    /\ wgCount' = WgAfterDone
    /\ sd' = SdAfterDone
    /\ UNCHANGED <<done, panic, conn, listeners, ret, cmd>>

\* the watcher goroutine of Connect: <-p.done, conn.Close(), p.wg.Done();
\* closing the transport ends every channel opened over it
Watcher(t) ==
    /\ Running
    /\ t \in 1..Len(transports)
    /\ transports[t].watcher = "waiting"
    /\ done
    /\ transports' = [transports EXCEPT ![t] =
                         [@ EXCEPT !.closes = @ + 1, !.watcher = "exited", !.released = @ + 1]]
    /\ clients' = [k \in 1..Len(clients) |->
                     IF clients[k].tr = t /\ clients[k].remote = "open"
                     THEN [clients[k] EXCEPT !.remote = "down"]
                     ELSE clients[k]]
    /\ wgCount' = WgAfterDone
    /\ sd' = SdAfterDone
    /\ UNCHANGED <<done, panic, conn, listeners, ret, cmd>>

----
\* ForwardFail with a slip: p.wg.Add(1) is made before net.Listen and not undone on
\* the error return
ForwardFailAfterAdd ==
    /\ Running
    /\ SetupPhase
    /\ Len(listeners) < MaxForwards
    /\ ret' = "BindError"
    /\ wgCount' = wgCount + 1
    /\ UNCHANGED <<done, panic, conn, transports, sd, listeners, clients>>

\* Forward whose net.Listen fails: returns the error
ForwardFail ==
    /\ Running
    /\ SetupPhase
    /\ Len(listeners) < MaxForwards
    /\ ret' = "BindError"
    /\ UNCHANGED <<done, panic, conn, transports, wgCount, sd, listeners, clients>>

\* Forward whose net.Listen succeeds: p.wg.Add(1), the accept loop is started,
\* the bound address is returned
ForwardOK ==
    /\ Running
    /\ SetupPhase
    /\ Len(listeners) < MaxForwards
    /\ listeners' = Append(listeners, [pc |-> "accept", open |-> TRUE, closes |-> 0,
                                        released |-> 0, acceptErr |-> FALSE])
    /\ wgCount' = wgCount + 1
    /\ ret' = "nil"
    /\ UNCHANGED <<done, panic, conn, transports, sd, clients>>

\* a local client connects to the port of listener f (it waits in the listen backlog)
ClientConnect(f) ==
    /\ Running
    /\ f \in 1..Len(listeners)
    /\ listeners[f].open
    /\ Len(clients) < MaxClients
    /\ clients' = Append(clients, [fwd |-> f, pc |-> "pending", local |-> "open",
                                   remote |-> "none", tr |-> 0, r2l |-> "idle", l2r |-> "idle",
                                   localCloses |-> 0, remoteCloses |-> 0, released |-> 0,
                                   preStop |-> FALSE, pipedPreStop |-> FALSE])
    /\ UNCHANGED <<done, panic, conn, transports, wgCount, sd, listeners, ret, cmd>>

\* the connections waiting in the backlog of listener f
Pending(f) == {k \in 1..Len(clients) : clients[k].fwd = f /\ clients[k].pc = "pending"}

\* the oldest element of a non-empty set of client indexes
Oldest(S) == CHOOSE k \in S : \A j \in S : k <= j

\* accept loop: listener.Accept() returns a connection, go p.handleClient(local, remote),
\* then the loop blocks in its select on p.done
Accept(f) ==
    /\ Running
    /\ f \in 1..Len(listeners)
    /\ listeners[f].pc = "accept"
    /\ Pending(f) # {}
    /\ clients' = [clients EXCEPT ![Oldest(Pending(f))] =
                       [@ EXCEPT !.pc = "dial", !.preStop = ~done]]
    /\ listeners' = [listeners EXCEPT ![f] = [@ EXCEPT !.pc = "select"]]
    /\ UNCHANGED <<done, panic, conn, transports, wgCount, sd, ret, cmd>>

\* accept loop: listener.Accept() returns an error; the loop logs it and returns
AcceptError(f) ==
    /\ Running
    /\ f \in 1..Len(listeners)
    /\ listeners[f].pc = "accept"
    /\ listeners' = [listeners EXCEPT ![f] = [@ EXCEPT !.pc = "exited", !.acceptErr = TRUE]]
    /\ UNCHANGED <<done, panic, conn, transports, wgCount, sd, clients, ret, cmd>>

\* Select with a slip: p.wg.Done() is called twice (a deferred Done and the explicit one)
SelectDoubleDone(f) ==
    /\ Running
    /\ f \in 1..Len(listeners)
    /\ listeners[f].pc = "select"
    /\ done
    /\ listeners' = [listeners EXCEPT ![f] =
                        [@ EXCEPT !.pc = "exited", !.open = FALSE,
                                  !.closes = @ + 1, !.released = @ + 2]]
    /\ wgCount' = wgCount - 2
    /\ sd' = IF wgCount - 2 <= 0 /\ wgCount - 1 >= 0
             THEN [c \in Callers |-> IF sd[c] = "waiting" THEN "woken" ELSE sd[c]]
             ELSE sd
    /\ UNCHANGED <<done, panic, conn, transports, clients, ret, cmd>>

\* Select with a slip: the loop releases its join slot and returns without
\* listener.Close()
SelectNoClose(f) ==
    /\ Running
    /\ f \in 1..Len(listeners)
    /\ listeners[f].pc = "select"
    /\ done
    /\ listeners' = [listeners EXCEPT ![f] = [@ EXCEPT !.pc = "exited", !.released = @ + 1]]
    /\ wgCount' = WgAfterDone
    /\ sd' = SdAfterDone
    /\ UNCHANGED <<done, panic, conn, transports, clients, ret, cmd>>

\* accept loop: case <-p.done of the select: listener.Close(), p.wg.Done(), return
Select(f) ==
    /\ Running
    /\ f \in 1..Len(listeners)
    /\ listeners[f].pc = "select"
    /\ done
    /\ listeners' = [listeners EXCEPT ![f] =
                        [@ EXCEPT !.pc = "exited", !.open = FALSE,
                                  !.closes = @ + 1, !.released = @ + 1]]
    /\ wgCount' = WgAfterDone
    /\ sd' = SdAfterDone
    /\ UNCHANGED <<done, panic, conn, transports, clients, ret, cmd>>

----
\* handleClient on a nil p.conn: p.conn.Dial dereferences the nil *ssh.Client
HandleDialNil(k) ==
    /\ Running
    /\ k \in 1..Len(clients)
    /\ clients[k].pc = "dial"
    /\ conn = 0
    /\ Crash("invalid memory address or nil pointer dereference")

\* handleClient: p.conn.Dial succeeds and yields the remote connection
HandleDialOK(k) ==
    /\ Running
    /\ k \in 1..Len(clients)
    /\ clients[k].pc = "dial"
    /\ conn # 0
    /\ transports[conn].closes = 0
    /\ clients' = [clients EXCEPT ![k] = [@ EXCEPT !.pc = "dialed", !.remote = "open", !.tr = conn]]
    /\ UNCHANGED <<done, panic, conn, transports, wgCount, sd, listeners, ret, cmd>>

\* HandleDialFail with a slip: the failed dial also closes the listener of its forward
HandleDialFailClosingListener(k) ==
    /\ Running
    /\ k \in 1..Len(clients)
    /\ clients[k].pc = "dial"
    /\ conn # 0
    /\ clients' = [clients EXCEPT ![k] = [@ EXCEPT !.pc = "dropped"]]
    /\ listeners' = [listeners EXCEPT ![clients[k].fwd] =
                        [@ EXCEPT !.open = FALSE, !.closes = @ + 1]]
    /\ UNCHANGED <<done, panic, conn, transports, wgCount, sd, ret, cmd>>

\* handleClient: p.conn.Dial fails (remote refuses, or the transport is closed);
\* the error is logged and handleClient returns
HandleDialFail(k) ==
    /\ Running
    /\ k \in 1..Len(clients)
    /\ clients[k].pc = "dial"
    /\ conn # 0
    /\ clients' = [clients EXCEPT ![k] = [@ EXCEPT !.pc = "dropped"]]
    /\ UNCHANGED <<done, panic, conn, transports, wgCount, sd, listeners, ret, cmd>>

\* handleClient after the dial: the two io.Copy goroutines are started on the
\* pipe's own WaitGroup, then p.wg.Add(1) and the teardown goroutine is started
HandleSpawn(k) ==
    /\ Running
    /\ k \in 1..Len(clients)
    /\ clients[k].pc = "dialed"
    /\ clients' = [clients EXCEPT ![k] = [@ EXCEPT !.pc = "piping", !.r2l = "running", !.l2r = "running",
                                                 !.pipedPreStop = ~done]]
    /\ wgCount' = wgCount + 1
    /\ UNCHANGED <<done, panic, conn, transports, sd, listeners, ret, cmd>>

\* the connection io.Copy reads from: remote for io.Copy(local, remote), local for io.Copy(remote, local)
Src(k, d) == IF d = "r2l" THEN clients[k].remote ELSE clients[k].local

\* the connection io.Copy writes to
Dst(k, d) == IF d = "r2l" THEN clients[k].local ELSE clients[k].remote

\* whether copy direction d of client k is in state s
CopyIs(k, d, s) == IF d = "r2l" THEN clients[k].r2l = s ELSE clients[k].l2r = s

\* io.Copy of direction d of client k has returned (wg.Done() of the pipe's WaitGroup)
CopyEnded(k, d) == CopyIs(k, d, "readEnd") \/ CopyIs(k, d, "writeErr")

\* client k with copy direction d terminated for reason how
CopyDone(k, d, how) ==
    IF d = "r2l" THEN [clients[k] EXCEPT !.r2l = how] ELSE [clients[k] EXCEPT !.l2r = how]

\* io.Copy returns because Read on its source returns EOF or an error
CopyEndRead(k, d) ==
    /\ Running
    /\ k \in 1..Len(clients)
    /\ CopyIs(k, d, "running")
    /\ Src(k, d) # "open"
    /\ clients' = [clients EXCEPT ![k] = CopyDone(k, d, "readEnd")]
    /\ UNCHANGED <<done, panic, conn, transports, wgCount, sd, listeners, ret, cmd>>

\* io.Copy returns because the source's peer sent bytes and Write on the destination failed
CopyEndWrite(k, d) ==
    /\ Running
    /\ k \in 1..Len(clients)
    /\ CopyIs(k, d, "running")
    /\ Src(k, d) = "open"
    /\ Dst(k, d) # "open"
    /\ clients' = [clients EXCEPT ![k] = CopyDone(k, d, "writeErr")]
    /\ UNCHANGED <<done, panic, conn, transports, wgCount, sd, listeners, ret, cmd>>

\* Teardown with a slip: the goroutine closes a connection variable shared by all
\* pipes, so the local connection of every other pipe is closed too
TeardownSharedConn(k) ==
    /\ Running
    /\ k \in 1..Len(clients)
    /\ clients[k].pc = "piping"
    /\ CopyEnded(k, "r2l")
    /\ CopyEnded(k, "l2r")
    /\ clients' = [j \in 1..Len(clients) |->
                     IF j = k
                     THEN [clients[j] EXCEPT !.pc = "finished", !.local = "closed",
                                             !.remote = "closed", !.localCloses = @ + 1,
                                             !.remoteCloses = @ + 1, !.released = @ + 1]
                     ELSE IF clients[j].pc = "piping"
                          THEN [clients[j] EXCEPT !.local = "closed", !.localCloses = @ + 1]
                          ELSE clients[j]]
    /\ wgCount' = WgAfterDone
    /\ sd' = SdAfterDone
    /\ UNCHANGED <<done, panic, conn, transports, listeners, ret, cmd>>

\* Teardown with a slip: the pipe's WaitGroup counts one copy only, so wg.Wait()
\* returns when the remote -> local copy has ended
TeardownAfterOneCopy(k) ==
    /\ Running
    /\ k \in 1..Len(clients)
    /\ clients[k].pc = "piping"
    /\ CopyEnded(k, "r2l")
    /\ clients' = [clients EXCEPT ![k] =
                      [@ EXCEPT !.pc = "finished", !.local = "closed", !.remote = "closed",
                                !.localCloses = @ + 1, !.remoteCloses = @ + 1,
                                !.released = @ + 1]]
    /\ wgCount' = WgAfterDone
    /\ sd' = SdAfterDone
    /\ UNCHANGED <<done, panic, conn, transports, listeners, ret, cmd>>

\* the teardown goroutine of handleClient: wg.Wait() for both copies, local.Close(),
\* remote.Close(), p.wg.Done()
Teardown(k) ==
    /\ Running
    /\ k \in 1..Len(clients)
    /\ clients[k].pc = "piping"
    /\ CopyEnded(k, "r2l")
    /\ CopyEnded(k, "l2r")
    /\ clients' = [clients EXCEPT ![k] =
                      [@ EXCEPT !.pc = "finished", !.local = "closed", !.remote = "closed",
                                !.localCloses = @ + 1, !.remoteCloses = @ + 1,
                                !.released = @ + 1]]
    /\ wgCount' = WgAfterDone
    /\ sd' = SdAfterDone
    /\ UNCHANGED <<done, panic, conn, transports, listeners, ret, cmd>>

\* the local client closes (or resets) its end of connection k
LocalPeerClose(k) ==
    /\ Running
    /\ k \in 1..Len(clients)
    /\ clients[k].local = "open"
    /\ clients' = [clients EXCEPT ![k] = [@ EXCEPT !.local = "eof"]]
    /\ UNCHANGED <<done, panic, conn, transports, wgCount, sd, listeners, ret, cmd>>

\* the remote endpoint closes (or resets) its end of the channel of connection k
RemotePeerClose(k) ==
    /\ Running
    /\ k \in 1..Len(clients)
    /\ clients[k].remote = "open"
    /\ clients' = [clients EXCEPT ![k] = [@ EXCEPT !.remote = "eof"]]
    /\ UNCHANGED <<done, panic, conn, transports, wgCount, sd, listeners, ret, cmd>>

----
\* Connect and Forward called by a program that uses the package directly and
\* calls Shutdown itself (cmd.pc = "lib")
UserConnectFail == cmd.pc = "lib" /\ ConnectFail /\ UNCHANGED cmd

UserConnectOK == cmd.pc = "lib" /\ ConnectOK /\ UNCHANGED cmd

UserForwardFail == cmd.pc = "lib" /\ ForwardFail /\ UNCHANGED cmd

UserForwardOK == cmd.pc = "lib" /\ ForwardOK /\ UNCHANGED cmd

----
\* the steps of the goroutines of the proxy
ProxyStep ==
    \/ \E c \in Callers : ShutdownWait(c) \/ WaitReturn(c)
    \/ \E t \in 1..MaxConnects : Watcher(t)
    \/ \E f \in 1..MaxForwards : Accept(f) \/ Select(f)
    \/ \E k \in 1..MaxClients :
          \/ HandleDialNil(k) \/ HandleDialOK(k) \/ HandleDialFail(k) \/ HandleSpawn(k)
          \/ Teardown(k)
          \/ \E d \in Dirs : CopyEndRead(k, d)

\* the steps of the environment: API calls, local clients, remote peers, the OS
EnvStep ==
    \/ \E c \in Callers : ShutdownClose(c)
    \/ UserConnectFail \/ UserConnectOK \/ UserForwardFail \/ UserForwardOK
    \/ \E f \in 1..MaxForwards : ClientConnect(f) \/ AcceptError(f)
    \/ \E k \in 1..MaxClients :
          \/ LocalPeerClose(k) \/ RemotePeerClose(k)
          \/ \E d \in Dirs : CopyEndWrite(k, d)

Next == ProxyStep \/ EnvStep

Spec == Init /\ [][Next]_vars

\* the Go scheduler runs every runnable goroutine; a blocking call returns once its
\* condition holds.  Nothing is assumed of the environment.
Fairness ==
    /\ \A c \in Callers : WF_vars(ShutdownWait(c)) /\ WF_vars(WaitReturn(c))
    /\ \A t \in 1..MaxConnects : WF_vars(Watcher(t))
    /\ \A f \in 1..MaxForwards : WF_vars(Accept(f)) /\ WF_vars(Select(f))
    /\ \A k \in 1..MaxClients :
          /\ WF_vars(HandleDialNil(k) \/ HandleDialOK(k) \/ HandleDialFail(k))
          /\ WF_vars(HandleSpawn(k))
          /\ WF_vars(Teardown(k))
          /\ \A d \in Dirs : WF_vars(CopyEndRead(k, d))

FairSpec == Spec /\ Fairness

----
\* The command (RunE of the root command and setupSignalHandler).  RunE makes a
\* cancellable context, starts the signal handler, hands the context to the proxy
\* (WithContext stores it in p.ctx, which nothing reads), calls Connect, calls
\* Forward once per configured remote, tests ctx.Err() once and then blocks in
\* "select {}".  RunE has no call of Shutdown.

\* position of RunE: "connect" (at p.Connect()), "forward" (in the loop over the
\* remotes, and up to the test of ctx.Err()), "idle" (in select {}), "exited"
CmdInit ==
    /\ done = FALSE
    /\ panic = "none"
    /\ conn = 0
    /\ transports = <<>>
    /\ wgCount = 0
    /\ sd = [c \in Callers |-> "idle"]
    /\ listeners = <<>>
    /\ clients = <<>>
    /\ ret = "nil"
    /\ \E n \in 1..MaxForwards :
          cmd = [pc |-> "connect", ctx |-> "live", handler |-> "waiting", remotes |-> n]

\* RunE: p.Connect() fails; RunE returns the error and Execute calls os.Exit(1)
RunEConnectFail ==
    /\ cmd.pc = "connect"
    /\ ConnectFail
    /\ cmd' = [cmd EXCEPT !.pc = "exited"]

\* RunE: p.Connect() succeeds
RunEConnectOK ==
    /\ cmd.pc = "connect"
    /\ ConnectOK
    /\ cmd' = [cmd EXCEPT !.pc = "forward"]

\* RunE: p.Forward fails for the next remote; RunE returns the error, os.Exit(1)
RunEForwardFail ==
    /\ cmd.pc = "forward"
    /\ Len(listeners) < cmd.remotes
    /\ ForwardFail
    /\ cmd' = [cmd EXCEPT !.pc = "exited"]

\* RunE: p.Forward succeeds for the next remote
RunEForwardOK ==
    /\ cmd.pc = "forward"
    /\ Len(listeners) < cmd.remotes
    /\ ForwardOK
    /\ UNCHANGED cmd

\* RunE after the loop: if ctx.Err() == context.Canceled it exits with status 1,
\* otherwise it blocks in select {} for ever
RunECheck ==
    /\ Running
    /\ cmd.pc = "forward"
    /\ Len(listeners) = cmd.remotes
    /\ cmd' = [cmd EXCEPT !.pc = IF cmd.ctx = "canceled" THEN "exited" ELSE "idle"]
    /\ UNCHANGED <<done, panic, conn, transports, wgCount, sd, listeners, clients, ret>>

\* the OS delivers an interrupt signal to the channel of setupSignalHandler
Interrupt ==
    /\ Running
    /\ cmd.handler = "waiting"
    /\ cmd' = [cmd EXCEPT !.handler = "signalled"]
    /\ UNCHANGED <<done, panic, conn, transports, wgCount, sd, listeners, clients, ret>>

\* setupSignalHandler: case <-ch: cancel(); then signal.Stop(ch).  (Its other case,
\* <-ctx.Done(), needs a cancel made elsewhere: only RunE's deferred one, at exit.)
setupSignalHandler ==
    /\ Running
    /\ cmd.handler = "signalled"
    /\ cmd' = [cmd EXCEPT !.handler = "stopped", !.ctx = "canceled"]
    /\ UNCHANGED <<done, panic, conn, transports, wgCount, sd, listeners, clients, ret>>

\* an interrupt signal after signal.Stop(ch): no handler is registered, the Go
\* runtime's default action ends the process
InterruptDefault ==
    /\ Running
    /\ cmd.handler = "stopped"
    /\ cmd' = [cmd EXCEPT !.pc = "exited"]
    /\ UNCHANGED <<done, panic, conn, transports, wgCount, sd, listeners, clients, ret>>

\* the steps of the command and of the goroutines the proxy has under it.  The stop
\* signal is never fired by the command, so the steps that wait for it (Watcher,
\* Select, the Shutdown steps) cannot occur; Forward comes after a successful
\* Connect, so p.conn is never nil in handleClient.
CmdStep ==
    \/ RunEConnectFail \/ RunEConnectOK \/ RunEForwardFail \/ RunEForwardOK
    \/ RunECheck
    \/ setupSignalHandler
    \/ \E f \in 1..MaxForwards : Accept(f)
    \/ \E k \in 1..MaxClients :
          \/ HandleDialOK(k) \/ HandleDialFail(k) \/ HandleSpawn(k)
          \/ Teardown(k)
          \/ \E d \in Dirs : CopyEndRead(k, d)

\* the environment of the command: signals, local clients, remote peers, the OS
CmdEnvStep ==
    \/ Interrupt \/ InterruptDefault
    \/ \E f \in 1..MaxForwards : ClientConnect(f) \/ AcceptError(f)
    \/ \E k \in 1..MaxClients :
          \/ LocalPeerClose(k) \/ RemotePeerClose(k)
          \/ \E d \in Dirs : CopyEndWrite(k, d)

CmdNext == CmdStep \/ CmdEnvStep

CmdSpec == CmdInit /\ [][CmdNext]_vars

\* the scheduler runs RunE and the signal handler; Connect and Forward return
CmdFairness ==
    /\ WF_vars(RunEConnectFail \/ RunEConnectOK)
    /\ WF_vars(RunEForwardFail \/ RunEForwardOK)
    /\ WF_vars(RunECheck)
    /\ WF_vars(setupSignalHandler)

CmdFairSpec == CmdSpec /\ Fairness /\ CmdFairness

----
\* some caller's Shutdown has returned
ShutdownReturned == \E c \in Callers : sd[c] = "returned"

\* listener f exists and its accept loop left on an Accept error
AcceptFailed(f) == f <= Len(listeners) /\ listeners[f].acceptErr

\* C1: after a successful Connect and successful Forward calls, a Shutdown that
\* waits returns eventually when no local client ever connects (and no Accept
\* fails, the process does not crash).
C1_BoundedShutdownNoTraffic ==
    \A c \in Callers :
        (sd[c] = "waiting" /\ conn # 0)
            ~> \/ ~Running
               \/ sd[c] = "returned"
               \/ clients # <<>>
               \/ \E f \in 1..MaxForwards : AcceptFailed(f)

\* C2: once the stop signal has fired, every open listener is eventually closed
\* (unless its accept loop has already left on an Accept error or the process crashed).
C2_ListenerClosedAfterStop ==
    \A f \in 1..MaxForwards :
        (done /\ f <= Len(listeners) /\ listeners[f].open)
            ~> \/ ~Running
               \/ AcceptFailed(f)
               \/ (f <= Len(listeners) /\ ~listeners[f].open)

\* C3: a second Shutdown call does not panic on the already closed stop channel.
C3_SecondShutdownNoPanic == panic # "close of closed channel"

\* C4: a local connection that arrives on a listener before the stop signal is
\* eventually accepted (unless the stop fires, Accept fails or the process crashes first).
C4_EveryArrivalAccepted ==
    \A k \in 1..MaxClients :
        (~done /\ k <= Len(clients) /\ clients[k].pc = "pending")
            ~> \/ ~Running
               \/ done
               \/ (k <= Len(clients) /\ clients[k].pc # "pending")
               \/ (k <= Len(clients) /\ AcceptFailed(clients[k].fwd))

\* C5: when Shutdown has returned, no pipe of a connection accepted before the stop
\* signal is still running: its teardown task has released its join slot.
C5_NoPipeOutlivesShutdown ==
    ShutdownReturned =>
        \A k \in 1..Len(clients) : clients[k].preStop => clients[k].pc # "piping"

\* C6: an accept loop that has exited has released its join slot exactly once.
C6_AcceptLoopReleasesOnce ==
    \A f \in 1..Len(listeners) : listeners[f].pc = "exited" => listeners[f].released = 1

\* the local client of connection k closed its connection, or sent bytes after the
\* remote side was gone
LocalClientActed(k) == clients[k].local = "eof" \/ clients[k].l2r = "writeErr"

\* C7: if stop fires while a pipe is mid-copy and the local client stays idle, both
\* connections of the pipe are eventually closed and Shutdown returns.
C7_StopMidCopyDrains ==
    \A k \in 1..MaxClients :
        (done /\ k <= Len(clients) /\ clients[k].pc = "piping" /\ clients[k].pipedPreStop
              /\ clients[k].r2l = "running" /\ clients[k].l2r = "running"
              /\ clients[k].local = "open")
            ~> \/ ~Running
               \/ (k <= Len(clients) /\ LocalClientActed(k))
               \/ (k <= Len(clients) /\ clients[k].local = "closed"
                     /\ clients[k].remote = "closed" /\ ShutdownReturned)

\* the other copy direction
Other(d) == IF d = "r2l" THEN "l2r" ELSE "r2l"

\* the peer of the source of copy direction d closed it, or sent bytes that could
\* not be written
PeerActed(k, d) == Src(k, d) = "eof" \/ CopyIs(k, d, "writeErr")

\* C8: once one copy direction of a pipe has terminated, the other terminates and
\* the pipe closes both connections, with no action of the peer of the open side.
C8_OneEndTearsDownBoth ==
    \A k \in 1..MaxClients : \A d \in Dirs :
        (k <= Len(clients) /\ clients[k].pc = "piping" /\ CopyEnded(k, d)
              /\ CopyIs(k, Other(d), "running") /\ Src(k, Other(d)) = "open")
            ~> \/ ~Running
               \/ (k <= Len(clients) /\ PeerActed(k, Other(d)))
               \/ (k <= Len(clients) /\ clients[k].pc = "finished")

\* C9: a pipe closes its connections and releases its join slot only after both copy
\* directions have terminated, each exactly once, and a pipe that is done has closed
\* both connections and released its slot; once both directions have terminated the
\* teardown can run.
C9_PipeCompletionRule ==
    \A k \in 1..Len(clients) :
        /\ clients[k].localCloses <= 1
        /\ clients[k].remoteCloses <= 1
        /\ clients[k].released <= 1
        /\ (clients[k].localCloses + clients[k].remoteCloses + clients[k].released > 0)
              => (CopyEnded(k, "r2l") /\ CopyEnded(k, "l2r"))
        /\ (clients[k].local = "closed" \/ clients[k].remote = "closed")
              => (CopyEnded(k, "r2l") /\ CopyEnded(k, "l2r"))
        /\ clients[k].pc = "finished"
              => /\ clients[k].localCloses = 1 /\ clients[k].local = "closed"
                 /\ clients[k].remoteCloses = 1 /\ clients[k].remote = "closed"
                 /\ clients[k].released = 1
        /\ (clients[k].pc = "piping" /\ CopyEnded(k, "r2l") /\ CopyEnded(k, "l2r"))
              => ENABLED Teardown(k)

\* C9 witness: a pipe is done after one copy ended with a write error and the other
\* on its source's end
C9_Witness ==
    \E k \in 1..Len(clients) :
        /\ clients[k].pc = "finished"
        /\ clients[k].l2r = "writeErr"
        /\ clients[k].r2l = "readEnd"

\* C10: a step in which the dial of one accepted connection fails leaves every
\* listener, every transport and every other connection as it was, and the process
\* running.
C10_DialFailureIsolated ==
    [][\A k \in 1..MaxClients :
          (k <= Len(clients) /\ clients[k].pc = "dial"
              /\ k <= Len(clients') /\ clients'[k].pc = "dropped")
          => /\ listeners' = listeners
             /\ transports' = transports
             /\ Len(clients') = Len(clients)
             /\ \A j \in 1..Len(clients) : j # k => clients'[j] = clients[j]
             /\ panic' = "none"]_vars

\* C10 witness: a dial has failed for one connection while another pipe is relaying
\* and the listener that accepted the failed connection is open
C10_Witness ==
    \E k, j \in 1..Len(clients) :
        /\ clients[k].pc = "dropped"
        /\ listeners[clients[k].fwd].open
        /\ clients[j].pc = "piping"
        /\ clients[j].r2l = "running" /\ clients[j].l2r = "running"
        /\ transports[clients[j].tr].closes = 0

\* C11: a local connection whose dial through the tunnel failed has been closed by
\* the proxy.
C11_DroppedConnectionClosed ==
    \A k \in 1..Len(clients) : clients[k].pc = "dropped" => clients[k].local = "closed"

\* C12: a connection accepted while the transport handle is absent gets an error
\* from the dial step; the process does not crash on the absent transport.
C12_NoDialOnAbsentTransport ==
    panic # "invalid memory address or nil pointer dereference"

\* the errors Connect returns
ConnectErrors == {"KeyReadError", "KeyParseError", "DialError"}

\* C13: a step in which Connect fails returns the error and leaves the transports
\* (no watcher is started), the join count, the transport handle and everything else
\* as they were; with no transport and no listener the join count is zero, so a
\* Shutdown called then never blocks in its wait.
C13_FailedConnectLeavesNoTrace ==
    /\ [][(ret' \in ConnectErrors /\ ret' # ret)
            => /\ transports' = transports
               /\ wgCount' = wgCount
               /\ conn' = conn
               /\ (transports = <<>> => conn' = 0)
               /\ UNCHANGED <<done, panic, sd, listeners, clients>>]_vars
    /\ [](Running /\ transports = <<>> /\ listeners = <<>>
            => /\ wgCount = 0
               /\ conn = 0
               /\ \A c \in Callers : sd[c] \notin {"waiting", "woken"})

\* C13 witness: Connect failed on the key, no Forward was made, and Shutdown has returned
C13_Witness ==
    /\ ret = "KeyReadError"
    /\ transports = <<>>
    /\ listeners = <<>>
    /\ conn = 0
    /\ ShutdownReturned

\* the tasks registered in the join mechanism that have not released their slot
Registered ==
    Cardinality({t \in 1..Len(transports) : transports[t].released = 0})
    + Cardinality({f \in 1..Len(listeners) : listeners[f].released = 0})
    + Cardinality({k \in 1..Len(clients) : clients[k].pc = "piping"})

\* C14: a successful Connect adds one transport with one waiting watcher and one join
\* slot; a transport is closed only after the stop signal, once, by its watcher, which
\* then releases its slot once; when Shutdown has returned every transport is closed.
C14_OneWatcherPerConnect ==
    /\ [][Len(transports') # Len(transports) /\ Running'
            => /\ Len(transports') = Len(transports) + 1
               /\ wgCount' = wgCount + 1
               /\ transports'[Len(transports')].watcher = "waiting"
               /\ transports'[Len(transports')].closes = 0
               /\ conn' = Len(transports')
               /\ ret' = "nil"]_vars
    /\ [](\A t \in 1..Len(transports) :
            /\ transports[t].closes <= 1
            /\ transports[t].released <= 1
            /\ transports[t].closes > 0 => done
            /\ transports[t].released = transports[t].closes
            /\ (transports[t].watcher = "exited") = (transports[t].closes = 1)
            /\ ShutdownReturned => transports[t].closes = 1)

\* C14 witness: Shutdown has returned after a successful Connect whose transport the
\* watcher has closed
C14_Witness ==
    /\ ShutdownReturned
    /\ Len(transports) >= 1
    /\ \A t \in 1..Len(transports) : transports[t].closes = 1 /\ transports[t].released = 1

\* C16: a step in which Forward cannot bind returns the error and changes nothing
\* else (no accept loop, same join count, stop signal, listeners and pipes); a step
\* in which it binds returns no error, adds one open listener whose loop is in
\* Accept, takes one join slot and changes no listener or connection that existed.
C16_ForwardBindFailureAndSuccess ==
    [][/\ (ret' = "BindError" /\ ret' # ret)
            => UNCHANGED <<done, panic, conn, transports, wgCount, sd, listeners, clients>>
       /\ (Len(listeners') # Len(listeners) /\ Running')
            => /\ Len(listeners') = Len(listeners) + 1
               /\ ret' = "nil"
               /\ wgCount' = wgCount + 1
               /\ listeners'[Len(listeners')].pc = "accept"
               /\ listeners'[Len(listeners')].open
               /\ \A f \in 1..Len(listeners) : listeners'[f] = listeners[f]
               /\ UNCHANGED <<done, panic, conn, transports, sd, clients>>]_vars

\* C16 witness: a Forward failed to bind while a listener and a relaying pipe exist
C16_Witness ==
    /\ ret = "BindError"
    /\ Len(listeners) = 1
    /\ listeners[1].open
    /\ \E k \in 1..Len(clients) : clients[k].pc = "piping"

\* C17: a step that changes the connection of one forward (its client closes, a copy
\* of its pipe ends, its pipe tears down, it is accepted or dialed) and is not the
\* closing of the shared transport leaves the listener and the connections of every
\* other forward as they were.
C17_ForwardsIndependent ==
    [][\A k \in 1..Len(clients) :
          (Running' /\ transports' = transports /\ clients'[k] # clients[k])
          => /\ \A j \in 1..Len(clients) :
                   clients[j].fwd # clients[k].fwd => clients'[j] = clients[j]
             /\ \A f \in 1..Len(listeners) :
                   f # clients[k].fwd => listeners'[f] = listeners[f]]_vars

\* C17 witness: two forwards each had a relaying pipe; the local client of one closed
\* and its pipe was torn down, the pipe of the other is relaying with both connections open
C17_Witness ==
    \E k, j \in 1..Len(clients) :
        /\ clients[k].fwd # clients[j].fwd
        /\ clients[k].pc = "finished"
        /\ clients[k].l2r = "readEnd"
        /\ clients[j].pc = "piping"
        /\ clients[j].local = "open" /\ clients[j].remote = "open"
        /\ clients[j].r2l = "running" /\ clients[j].l2r = "running"
        /\ listeners[clients[j].fwd].open

\* a step that fires the stop signal, or in which a task reacts to it: the watcher
\* closes its transport, an accept loop closes its listener
StopStep ==
    /\ Running'
    /\ \/ done' # done
       \/ \E t \in 1..Len(transports) : transports'[t] # transports[t]
       \/ \E f \in 1..Len(listeners) : listeners[f].open /\ ~listeners'[f].open

\* C18 as stated: firing the stop signal, and every reaction of a task to it, leaves
\* every connection and every copy direction of every pipe as it was.
C18_StopLeavesPipesUntouched ==
    [][StopStep => clients' = clients]_vars

\* C18 amended: firing the stop signal changes no pipe; a reaction of a task to it
\* closes no local connection, calls Close on no connection of a pipe and ends no
\* copy direction; the one thing it does to a pipe is that the watcher's closing of
\* the transport brings down the open remote connections made over that transport.
C18_StopOnlyBringsDownRemote ==
    [][StopStep =>
          /\ Len(clients') = Len(clients)
          /\ done' # done => clients' = clients
          /\ \A k \in 1..Len(clients) :
                /\ clients'[k] = [clients[k] EXCEPT !.remote = clients'[k].remote]
                /\ clients'[k].remote # clients[k].remote
                      => /\ clients[k].remote = "open"
                         /\ clients'[k].remote = "down"
                         /\ transports[clients[k].tr].closes = 0
                         /\ transports'[clients[k].tr].closes = 1]_vars

\* C18 witness: after the stop signal the watcher has closed the transport under a
\* relaying pipe whose local connection is open and whose local -> remote copy runs
C18_Witness ==
    /\ done
    /\ \E k \in 1..Len(clients) :
          /\ clients[k].pc = "piping"
          /\ clients[k].pipedPreStop
          /\ clients[k].remote = "down"
          /\ clients[k].local = "open"
          /\ clients[k].l2r = "running"
          /\ clients[k].localCloses = 0 /\ clients[k].remoteCloses = 0

\* C19: the join counter is never negative; it equals the number of registered tasks
\* that have not released their slot, and no task has released more than once.
C19_JoinCounterNeverNegative ==
    /\ wgCount >= 0
    /\ wgCount = Registered
    /\ \A t \in 1..Len(transports) : transports[t].released \in {0, 1}
    /\ \A f \in 1..Len(listeners) : listeners[f].released \in {0, 1}
    /\ \A k \in 1..Len(clients) :
          /\ clients[k].released \in {0, 1}
          /\ clients[k].released = 1 => clients[k].pc = "finished"

\* C19 witness: a watcher, an accept loop and a pipe have each released their slot
\* and the counter is back at zero
C19_Witness ==
    /\ wgCount = 0
    /\ \E t \in 1..Len(transports) : transports[t].released = 1
    /\ \E f \in 1..Len(listeners) : listeners[f].released = 1
    /\ \E k \in 1..Len(clients) : clients[k].released = 1

\* C20: an accept loop that has released its join slot has closed its listener, once;
\* with a zero join count no listener is open; when Shutdown has returned every
\* listener is closed.
C20_ListenersClosedWhenShutdownReturned ==
    \A f \in 1..Len(listeners) :
        /\ listeners[f].released > 0 => (~listeners[f].open /\ listeners[f].closes = 1)
        /\ wgCount = 0 => ~listeners[f].open
        /\ ShutdownReturned => ~listeners[f].open

\* C20 witness: Shutdown has returned after two Forward calls and both listeners are closed
C20_Witness ==
    /\ ShutdownReturned
    /\ Len(listeners) = 2
    /\ \A f \in 1..Len(listeners) : ~listeners[f].open /\ listeners[f].released = 1

\* the command has started up: Connect and every Forward succeeded, RunE is idle
StartedUp == cmd.pc = "idle" /\ Len(transports) = 1 /\ Len(listeners) = cmd.remotes

\* C15: after a successful startup, a cancellation of the context (by the interrupt
\* signal) leads to the stop signal being fired.
C15_CancelLeadsToStop ==
    (StartedUp /\ cmd.ctx = "canceled") ~> done

====
